---- MODULE Spec2Model ----
(***************************************************************************)
(* Wordle leaderboard bot: ingestion of results messages into the users /  *)
(* games tables (database.py), driven by the live message handler and the  *)
(* backfill command (bot.py) with the parser of message_parser.py.         *)
(*                                                                         *)
(* Two bot activities run against one shared store: the live handler       *)
(* (on_message -> process_wordlebot_message) and a backfill command, which *)
(* scans a channel history message by message and replies once, after the *)
(* scan or when an exception ends it.  Every                               *)
(* database method opens its own connection and commits on leaving its     *)
(* `with` block, so the store is touched in three separate statements per  *)
(* record: the user upsert, the duplicate SELECT and the INSERT.  These    *)
(* are the atomic steps of the model.                                      *)
(*                                                                         *)
(* Backends: with DATABASE_URL set the store is Postgres (psycopg), else   *)
(* SQLite.  sqlite3.Cursor is not a context manager, so on SQLite the      *)
(* statement `with conn.cursor() as cursor:` of add_or_update_user and     *)
(* add_game_result raises TypeError before any SQL is executed.            *)
(***************************************************************************)
EXTENDS Integers, Sequences, FiniteSets, TLC

(* ------------------------------ bounds ------------------------------- *)
\* user ids are 1..MaxUser
MaxUser == 3
\* score lines per message
MaxLines == 2
\* messages are created on days 1..MaxDay (day 0 is the epoch 2021-06-19)
MaxDay == 2
\* handler / backfill invocations in one behaviour
MaxCalls == 2
\* attempt counts passed to add_game_result by a direct caller: 0..MaxGuessArg
MaxGuessArg == 7
\* play dates before a streak query are the days 0..MaxStreakDay
MaxStreakDay == 5
\* a direct caller of add_game_result stops once the sequence behind games.id
\* has handed out MaxIdSeq values
MaxIdSeq == 5
\* rank queries on the large store ask for the users 1..MaxRankQuery
MaxRankQuery == 30

(* ------------------------- program constants ------------------------- *)
\* guesses recorded for the failure marker X/6
FailGuesses == 6
\* success = guesses <= 6
MaxSuccessGuesses == 6
\* score = 8 - guesses for a success
ScoreBase == 8
\* score of a failure
FailScore == 1

\* period_start of the alltime period, date(2020, 1, 1), as a day number
AllTimeStart == -535
\* get_user_rank reads the leaderboard with limit=1000
RankLimit == 1000
\* get_user_rank returns -1 for a user not in the leaderboard
NotRanked == -1
\* first_game / last_game None
NoDate == -1000

UserIds == 1..MaxUser
Days == 1..MaxDay

\* The ids that message.guild.get_member / message._state.get_user resolve:
\* the highest id is a user the client no longer has in its cache.
Members == UserIds \ {MaxUser}

NoTok == "-"
NoMarker == -1

(* ------------------------------ parser ------------------------------- *)
\* int(raw) for the digit captured by score_pattern ([0-6]|X)/6
DigitValue(raw) ==
    CASE raw = "0" -> 0 [] raw = "1" -> 1 [] raw = "2" -> 2 [] raw = "3" -> 3
      [] raw = "4" -> 4 [] raw = "5" -> 5 [] raw = "6" -> 6

\* guesses of a captured score token
TokGuesses(raw) == IF raw \in {"X", "x"} THEN FailGuesses ELSE DigitValue(raw)

\* a success test that leaves out a solve on the last attempt
TokSuccessBelowSix(raw) == IF raw \in {"X", "x"} THEN FALSE ELSE DigitValue(raw) < MaxSuccessGuesses

\* success of a captured score token
TokSuccess(raw) == IF raw \in {"X", "x"} THEN FALSE ELSE DigitValue(raw) <= MaxSuccessGuesses

\* A name is the sequence of its characters: ASCII letters, digits and "_",
\* which is what @(\w+) captures of the names of the model.
UpperLetters == <<"A", "B", "C", "D", "E", "F", "G", "H", "I", "J", "K", "L", "M", "N", "O", "P", "Q", "R", "S", "T", "U", "V", "W", "X", "Y", "Z">>
LowerLetters == <<"a", "b", "c", "d", "e", "f", "g", "h", "i", "j", "k", "l", "m", "n", "o", "p", "q", "r", "s", "t", "u", "v", "w", "x", "y", "z">>

\* the lower-case letter of every upper-case letter
ToLower ==
    [c \in {UpperLetters[i] : i \in 1..Len(UpperLetters)} |->
        LowerLetters[CHOOSE i \in 1..Len(UpperLetters) : UpperLetters[i] = c]]

\* str.lower() on one character
LowerChar(c) == IF c \in DOMAIN ToLower THEN ToLower[c] ELSE c

\* str.lower()
Lower(name) == [i \in 1..Len(name) |-> LowerChar(name[i])]

\* the names written after "@" in the lines of the model
NameAlice == <<"A", "l", "i", "c", "e">>
NameAliceLower == <<"a", "l", "i", "c", "e">>
NameBob == <<"B", "o", "b">>
NameUser == <<"U", "s", "e", "r">>

\* member names of the guild, m.name: user 1 is "alice", the others "user";
\* nobody has a nickname
MemberName(u) == IF u = 1 THEN <<"a", "l", "i", "c", "e">> ELSE <<"u", "s", "e", "r">>

\* guild.get_member_named(username), then the case-insensitive scan of
\* guild.members; 0 when nobody matches
MemberNamed(username) ==
    IF \E u \in Members : MemberName(u) = username
    THEN CHOOSE u \in Members : MemberName(u) = username
    ELSE IF \E u \in Members : Lower(MemberName(u)) = Lower(username)
         THEN CHOOSE u \in Members : Lower(MemberName(u)) = Lower(username)
         ELSE 0

\* A line of the corpus is a record of what the three patterns find on it:
\*   mentions  the ids of its <@!id> tokens, in order (user_mention_pattern)
\*   plains    the names of its @name tokens, in order (plain_username_pattern;
\*             the "!" keeps the pattern from matching inside a <@!id> token)
\*   toks      the captures of its score tokens, in order (score_pattern)

\* a search that takes the last score token of the line
ScoreSearchLast(line) == IF line.toks = <<>> THEN NoTok ELSE line.toks[Len(line.toks)]

\* score_pattern.search(line).group(1): the first score token of the line
ScoreSearch(line) == IF line.toks = <<>> THEN NoTok ELSE Head(line.toks)

\* one entry of results; of raw_line (the stripped line, which nothing reads
\* but the log) the model keeps the score token the entry was made from
Rec(u, line) ==
    [user_id |-> u, guesses |-> TokGuesses(ScoreSearch(line)),
     success |-> TokSuccess(ScoreSearch(line)), raw_line |-> ScoreSearch(line)]

RECURSIVE MentionRecords(_, _)
MentionRecords(mentions, line) ==
    IF mentions = <<>> THEN <<>>
    ELSE <<Rec(Head(mentions), line)>> \o MentionRecords(Tail(mentions), line)

RECURSIVE PlainRecords(_, _)
PlainRecords(plains, line) ==
    IF plains = <<>> THEN <<>>
    ELSE (IF MemberNamed(Head(plains)) # 0
          THEN <<Rec(MemberNamed(Head(plains)), line)>> ELSE <<>>)
         \o PlainRecords(Tail(plains), line)

\* the records of one line: nothing without a score token, else one record
\* per <@!id> mention followed by one per resolvable @name
LineRecords(line) ==
    IF ScoreSearch(line) = NoTok THEN <<>>
    ELSE MentionRecords(line.mentions, line) \o PlainRecords(line.plains, line)

RECURSIVE parse_player_results(_)
parse_player_results(lines) ==
    IF lines = <<>> THEN <<>>
    ELSE LineRecords(Head(lines)) \o parse_player_results(Tail(lines))

\* _message_text(message) is empty
TextEmpty(m) == ~m.header /\ m.marker = NoMarker /\ m.lines = <<>>

\* score_pattern.search(text)
HasScore(m) == \E i \in 1..Len(m.lines) : m.lines[i].toks # <<>>

\* a detector that takes the results header alone for a results summary
DetectByHeaderAlone(m) ==
    IF TextEmpty(m) THEN FALSE
    ELSE IF m.header THEN TRUE
    ELSE m.bot /\ m.named /\ HasScore(m)

is_wordlebot_message(m) ==
    IF TextEmpty(m) THEN FALSE
    ELSE IF m.header /\ m.marker # NoMarker THEN TRUE
    ELSE m.bot /\ m.named /\ HasScore(m)

\* None is NoMarker
extract_wordle_number(m) == m.marker

NoData == [wordle_number |-> NoMarker, game_date |-> 0, player_results |-> <<>>]

\* `if not wordle_number` is true for None and for 0
Falsy(n) == n = NoMarker \/ n = 0

\* wordle number after the derivation from the date (epoch is day 0)
ResolvedNumber(m) ==
    LET n == extract_wordle_number(m)
        game_date == m.day - 1
    IN IF ~Falsy(n) THEN n
       ELSE IF game_date >= 0 THEN game_date ELSE n

\* a parser without the second `if not wordle_number` test: it hands on
\* whatever number it has
ParseWithoutRoundCheck(m) ==
    IF ~is_wordlebot_message(m) THEN NoData
    ELSE IF parse_player_results(m.lines) = <<>> THEN NoData
    ELSE [wordle_number |-> ResolvedNumber(m),
          game_date |-> m.day - 1,
          player_results |-> parse_player_results(m.lines)]

parse_wordlebot_message(m) ==
    LET player_results == parse_player_results(m.lines)
    IN IF ~is_wordlebot_message(m) THEN NoData
       ELSE IF player_results = <<>> THEN NoData
       ELSE IF Falsy(ResolvedNumber(m)) THEN NoData
       ELSE [wordle_number |-> ResolvedNumber(m),
             game_date |-> m.day - 1,
             player_results |-> player_results]

\* message.guild.get_member(user_id) or message._state.get_user(user_id)
get_user_from_mention(user_id) == user_id \in Members

\* what the parser makes of a message, in the order of its checks: not a
\* results summary, no record, no round number, and for a message that parses
\* whether any of its records names a user the client can resolve
Classify(m) ==
    LET player_results == parse_player_results(m.lines)
    IN IF ~is_wordlebot_message(m) THEN "not_detected"
       ELSE IF player_results = <<>> THEN "no_records"
       ELSE IF Falsy(ResolvedNumber(m)) THEN "no_round"
       ELSE IF \E i \in 1..Len(player_results) :
                   get_user_from_mention(player_results[i].user_id)
            THEN "ingestible"
            ELSE "unresolvable"

(* ------------------------------ storage ------------------------------ *)
\* the formula of the earlier variant of the bot: score = guesses + 1
ScoreAttemptsPlusOne(guesses, success) == IF success THEN guesses + 1 ELSE FailScore

\* score = (8 - guesses) if success else 1
Score(guesses, success) == IF success THEN ScoreBase - guesses ELSE FailScore

\* SELECT id FROM games WHERE user_id = ? AND wordle_number = ? AND game_date = ?
SelectGame(gs, u, n, d) ==
    {r \in gs : r.user_id = u /\ r.wordle_number = n /\ r.game_date = d}

\* a games table created without the UNIQUE constraint
UniqueOkNoConstraint(gs, u, n, d) == TRUE

\* UNIQUE(user_id, wordle_number, game_date) admits the new row
UniqueOk(gs, u, n, d) ==
    ~\E r \in gs : r.user_id = u /\ r.wordle_number = n /\ r.game_date = d

\* user_id BIGINT NOT NULL REFERENCES users(user_id)
ForeignKeyOk(us, u) == u \in us

\* id BIGSERIAL: the value nextval hands out after seq values were taken
NextVal(seq) == seq + 1

\* the row an INSERT writes, its id taken from the sequence
NewRow(seq, u, n, d, guesses, success) ==
    [id |-> NextVal(seq), user_id |-> u, wordle_number |-> n,
     game_date |-> d, guesses |-> guesses,
     score |-> Score(guesses, success), success |-> success]

\* INSERT OR REPLACE INTO games: the row with the same key is overwritten
InsertOrReplaceGame(us, gs, seq, u, n, d, guesses, success) ==
    [games |-> {r \in gs : ~(r.user_id = u /\ r.wordle_number = n /\ r.game_date = d)}
                  \cup {NewRow(seq, u, n, d, guesses, success)},
     seq |-> NextVal(seq), raised |-> "none"]

\* INSERT INTO games (...) VALUES (...) and the commit: the table and the
\* sequence after the statement and the exception the storage layer raised.
\* The id is drawn before the constraints are checked, and a statement that
\* fails does not give it back.
InsertGame(us, gs, seq, u, n, d, guesses, success) ==
    IF ~UniqueOk(gs, u, n, d)
    THEN [games |-> gs, seq |-> NextVal(seq), raised |-> "UniqueViolation"]
    ELSE IF ~ForeignKeyOk(us, u)
    THEN [games |-> gs, seq |-> NextVal(seq), raised |-> "ForeignKeyViolation"]
    ELSE [games |-> gs \cup {NewRow(seq, u, n, d, guesses, success)},
          seq |-> NextVal(seq), raised |-> "none"]

\* an upsert that replaces the table by the one row
UpsertUserReplacingTable(us, u) == {u}

\* INSERT ... ON CONFLICT (user_id) DO UPDATE
UpsertUser(us, u) == us \cup {u}

\* add_or_update_user as one call: the rows after it and what it raised
add_or_update_user(us, pg, u) ==
    IF ~pg THEN [users |-> us, raised |-> "TypeError"]
    ELSE [users |-> UpsertUser(us, u), raised |-> "none"]

\* add_game_result as one uninterrupted call: the rows and the sequence after
\* it, the value returned ("True" / "False") or the exception raised, and the
\* score computed
add_game_result(us, gs, seq, pg, u, n, d, guesses, success) ==
    IF ~pg
    THEN [games |-> gs, seq |-> seq, ret |-> "TypeError",
          score |-> Score(guesses, success)]
    ELSE IF SelectGame(gs, u, n, d) # {}
    THEN [games |-> gs, seq |-> seq, ret |-> "False",
          score |-> Score(guesses, success)]
    ELSE LET ins == InsertGame(us, gs, seq, u, n, d, guesses, success)
         IN [games |-> ins.games, seq |-> ins.seq,
             ret |-> IF ins.raised = "none" THEN "True" ELSE ins.raised,
             score |-> Score(guesses, success)]

(* ------------------------------ streaks ------------------------------ *)
\* SELECT DISTINCT game_date FROM games WHERE user_id = ?
SelectDates(gs, u) == {r.game_date : r \in {g \in gs : g.user_id = u}}

MaxOf(S) == CHOOSE x \in S : \A y \in S : y <= x
MinOf(S) == CHOOSE x \in S : \A y \in S : x <= y

\* sorted(set(dates))
RECURSIVE SortedAsc(_)
SortedAsc(S) == IF S = {} THEN <<>> ELSE <<MinOf(S)>> \o SortedAsc(S \ {MinOf(S)})

\* sorted(set(dates), reverse=True)
RECURSIVE SortedDesc(_)
SortedDesc(S) == IF S = {} THEN <<>> ELSE <<MaxOf(S)>> \o SortedDesc(S \ {MaxOf(S)})

\* the loop over unique_dates, most recent first: count while the date is
\* the expected one, stop at the first gap
RECURSIVE CurrentLoop(_, _, _)
CurrentLoop(unique_dates, expected_date, current_streak) ==
    IF unique_dates = <<>> THEN current_streak
    ELSE IF Head(unique_dates) = expected_date
         THEN CurrentLoop(Tail(unique_dates), Head(unique_dates) - 1, current_streak + 1)
         ELSE current_streak

\* the same loop run over the dates oldest first, counting forward
RECURSIVE OldestLoop(_, _, _)
OldestLoop(unique_dates, expected_date, current_streak) ==
    IF unique_dates = <<>> THEN current_streak
    ELSE IF Head(unique_dates) = expected_date
         THEN OldestLoop(Tail(unique_dates), Head(unique_dates) + 1, current_streak + 1)
         ELSE current_streak

\* a current streak counted from the oldest play date
CurrentStreakFromOldest(dates) ==
    IF dates = {} THEN 0
    ELSE OldestLoop(SortedAsc(dates), MinOf(dates), 0)

\* a current streak that counts every play date, gaps or not
CurrentStreakCountAll(dates) == Cardinality(dates)

\* current_streak of get_user_streak for the dates of the query
CurrentStreak(dates) ==
    IF dates = {} THEN 0
    ELSE CurrentLoop(SortedDesc(dates), SortedDesc(dates)[1], 0)

\* the loop for i in range(1, len(unique_dates)): i is the 1-based position
\* of curr_date
RECURSIVE LongestLoop(_, _, _, _)
LongestLoop(unique_dates, i, current_run, longest_streak) ==
    IF i > Len(unique_dates) THEN longest_streak
    ELSE IF unique_dates[i] - unique_dates[i - 1] = 1
         THEN LongestLoop(unique_dates, i + 1, current_run + 1,
                          IF current_run + 1 > longest_streak
                          THEN current_run + 1 ELSE longest_streak)
         ELSE LongestLoop(unique_dates, i + 1, 1, longest_streak)

\* a loop that takes the maximum only when a gap ends a run
RECURSIVE LongestOnGapLoop(_, _, _, _)
LongestOnGapLoop(unique_dates, i, current_run, longest_streak) ==
    IF i > Len(unique_dates) THEN longest_streak
    ELSE IF unique_dates[i] - unique_dates[i - 1] = 1
         THEN LongestOnGapLoop(unique_dates, i + 1, current_run + 1, longest_streak)
         ELSE LongestOnGapLoop(unique_dates, i + 1, 1,
                               IF current_run > longest_streak
                               THEN current_run ELSE longest_streak)

\* a longest streak that misses the run the dates end with
LongestStreakOnGap(dates) ==
    IF dates = {} THEN 0
    ELSE LongestOnGapLoop(SortedAsc(dates), 2, 1, 1)

\* longest_streak of get_user_streak for the dates of the query
LongestStreak(dates) ==
    IF dates = {} THEN 0
    ELSE LongestLoop(SortedAsc(dates), 2, 1, 1)

\* get_user_streak(user_id)
get_user_streak(gs, u) ==
    [current_streak |-> CurrentStreak(SelectDates(gs, u)),
     longest_streak |-> LongestStreak(SelectDates(gs, u))]

(* ------------------------- stats and leaderboard --------------------- *)
\* Dates are day numbers counted from 2021-06-19 (day 0, a Saturday); the
\* calendar below covers 2021-06-01 (day -18) to 2021-07-31 (day 42).
Periods == {"weekly", "monthly", "alltime"}

\* date.weekday(): 0 = Monday ... 6 = Sunday
Weekday(d) == (d + 5) % 7

\* date.day
DayOfMonth(d) == IF d >= 12 THEN d - 11 ELSE d + 19

\* a weekly window that goes back seven days from today
PeriodStartRolling(today, period_type) ==
    IF period_type = "weekly" THEN today - 6
    ELSE IF period_type = "monthly" THEN today - (DayOfMonth(today) - 1)
    ELSE AllTimeStart

\* period_start for today and period_type
PeriodStart(today, period_type) ==
    IF period_type = "weekly" THEN today - Weekday(today)
    ELSE IF period_type = "monthly" THEN today - (DayOfMonth(today) - 1)
    ELSE AllTimeStart

RECURSIVE SumScore(_)
\* SUM(score) over a set of rows
SumScore(rows) ==
    IF rows = {} THEN 0
    ELSE LET r == CHOOSE x \in rows : TRUE IN r.score + SumScore(rows \ {r})

\* round(AVG(score), 2) in hundredths, half to even
RoundedAverage(total, count) ==
    LET q == (100 * total) \div count
        rem == (100 * total) % count
    IN IF 2 * rem > count THEN q + 1
       ELSE IF 2 * rem = count THEN q + (q % 2)
       ELSE q

\* a stats query that leaves out the user_id = ? condition
WhereDateOnly(gs, u, start) == {g \in gs : g.game_date >= start}

\* FROM games WHERE user_id = ? AND game_date >= ?
WhereUserAndDate(gs, u, start) == {g \in gs : g.user_id = u /\ g.game_date >= start}

\* get_user_stats(user_id, period_type) on a day `today`
get_user_stats(gs, u, today, period_type) ==
    LET rows == WhereUserAndDate(gs, u, PeriodStart(today, period_type))
    IN IF Cardinality(rows) > 0
       THEN [games_played |-> Cardinality(rows),
             total_score |-> SumScore(rows),
             average_score |-> RoundedAverage(SumScore(rows), Cardinality(rows)),
             successful_games |-> Cardinality({g \in rows : g.success}),
             first_game |-> MinOf({g.game_date : g \in rows}),
             last_game |-> MaxOf({g.game_date : g \in rows})]
       ELSE [games_played |-> 0, total_score |-> 0, average_score |-> 0,
             successful_games |-> 0, first_game |-> NoDate, last_game |-> NoDate]

\* the group of user u in users LEFT JOIN games ON user_id AND game_date >= ?
JoinedRows(gs, u, start) == {g \in gs : g.user_id = u /\ g.game_date >= start}

\* Rows that ORDER BY does not separate come in the order the database
\* happens to emit them: tie[u] is the place of user u in that order.

\* an ORDER BY total_score DESC alone
OrderBeforeTotalOnly(gs, start, tie, a, b) ==
    LET ta == SumScore(JoinedRows(gs, a, start))
        tb == SumScore(JoinedRows(gs, b, start))
    IN \/ ta > tb
       \/ ta = tb /\ tie[a] < tie[b]

\* ORDER BY total_score DESC, average_score DESC: user a comes before user b
\* (averages compared as fractions)
OrderBefore(gs, start, tie, a, b) ==
    LET ta == SumScore(JoinedRows(gs, a, start))
        tb == SumScore(JoinedRows(gs, b, start))
        na == Cardinality(JoinedRows(gs, a, start))
        nb == Cardinality(JoinedRows(gs, b, start))
    IN \/ ta > tb
       \/ ta = tb /\ ta * nb > tb * na
       \/ ta = tb /\ ta * nb = tb * na /\ tie[a] < tie[b]

\* the groups that pass HAVING COUNT(g.id) > 0
Groups(us, gs, start) == {u \in us : Cardinality(JoinedRows(gs, u, start)) > 0}

\* the 1-based place of user u among the groups in ORDER BY order
Position(gs, start, tie, group, u) ==
    1 + Cardinality({v \in group \ {u} : OrderBefore(gs, start, tie, v, u)})

\* the groups in ORDER BY order
Ordered(gs, start, tie, group) ==
    [i \in 1..Cardinality(group) |->
        CHOOSE u \in group : Position(gs, start, tie, group, u) = i]

\* one row of the result of get_leaderboard
LeaderboardEntry(gs, u, start) ==
    [user_id |-> u,
     games_played |-> Cardinality(JoinedRows(gs, u, start)),
     total_score |-> SumScore(JoinedRows(gs, u, start)),
     average_score |-> RoundedAverage(SumScore(JoinedRows(gs, u, start)),
                                      Cardinality(JoinedRows(gs, u, start))),
     successful_games |-> Cardinality({g \in JoinedRows(gs, u, start) : g.success}),
     current_streak |-> get_user_streak(gs, u).current_streak,
     longest_streak |-> get_user_streak(gs, u).longest_streak]

\* get_leaderboard(period_type, limit) on a day `today`; LIMIT keeps the
\* first `limit` rows
get_leaderboard(us, gs, today, period_type, limit, tie) ==
    LET start == PeriodStart(today, period_type)
        order == Ordered(gs, start, tie, Groups(us, gs, start))
        n == IF Len(order) < limit THEN Len(order) ELSE limit
    IN [i \in 1..n |-> LeaderboardEntry(gs, order[i], start)]

\* get_user_rank(user_id, period_type): the 1-based index of the user in
\* get_leaderboard(period_type, limit=1000), which is the user's place in
\* ORDER BY order when that place is within the limit, and -1 when the user
\* is not in the list
get_user_rank(us, gs, u, today, period_type, tie) ==
    LET start == PeriodStart(today, period_type)
        group == Groups(us, gs, start)
    IN IF u \in group /\ Position(gs, start, tie, group, u) <= RankLimit
       THEN Position(gs, start, tie, group, u)
       ELSE NotRanked

(* ------------------------------- inputs ------------------------------ *)
\* the lines of the messages of the model: "<@!u> 3/6" for every user,
\* "@Alice 3/6" and "<@!1>" without a score
LineInputs ==
    {[mentions |-> <<u>>, plains |-> <<>>, toks |-> <<"3">>] : u \in UserIds}
    \cup {[mentions |-> <<>>, plains |-> <<NameAlice>>, toks |-> <<"3">>],
          [mentions |-> <<1>>, plains |-> <<>>, toks |-> <<>>]}

LineSeqs == UNION {[1..k -> LineInputs] : k \in 0..MaxLines}

\* the round-number marker of a message: absent, "Wordle No. 0" or "Wordle No. 1"
MarkerInputs == {NoMarker, 0, 1}

\* a human author, and the WordleBot application
AuthorInputs == {[bot |-> FALSE, named |-> FALSE], [bot |-> TRUE, named |-> TRUE]}

Messages ==
    {[bot |-> a.bot, named |-> a.named, header |-> h, marker |-> k, day |-> d, lines |-> ls] :
        a \in AuthorInputs, h \in BOOLEAN, k \in MarkerInputs, d \in Days, ls \in LineSeqs}

(* ------------------------------- state ------------------------------- *)
\* the activities that ingest: the live handler and the /backfill commands
\* that are under way at the same time, each a task of its own
BackfillTasks == {"backfill", "backfill_2"}
Procs == {"live"} \cup BackfillTasks

NoApi == [op |-> "none", guesses |-> 0, success |-> FALSE, score |-> 0, ret |-> "none"]

VARIABLES
    use_postgres,  \* WordleDatabase.use_postgres
    users,         \* user_id of the rows of table users
    games,         \* rows of table games
    games_id_seq,  \* values the sequence behind games.id has handed out
    pc,            \* per activity: "idle", "user", "select", "insert"; a
                   \* backfill is at "defer" while its response is being
                   \* deferred and at "scan" while it awaits the next message
    parsed,        \* per activity: parsed_data of the message being processed
    idx,           \* per activity: position in parsed_data['player_results']
    outcomes,      \* per activity: what happened to each record of the call
    created,       \* per activity: users the call's upserts created
    surfaced,      \* per activity: what the caller of the last call got
    processed,     \* per backfill: its processed_messages and processed_results
    reingest,      \* per activity: the message was fully ingested before
    seen,          \* per activity: what the parser makes of the last message
    ingested,      \* parsed data of the calls that ran to their end
    calls,         \* invocations so far
    api            \* last direct call of add_game_result

vars == <<use_postgres, users, games, games_id_seq, pc, parsed, idx, outcomes, created,
          surfaced, processed, reingest, seen, ingested, calls, api>>

procVars == <<pc, parsed, idx, outcomes, created, surfaced, processed, reingest, seen>>

\* processed_messages = 0, processed_results = 0
NoneProcessed == [messages |-> 0, results |-> 0]

Init ==
    /\ use_postgres \in BOOLEAN
    /\ users = {}
    /\ games = {}
    /\ games_id_seq = 0
    /\ pc = [p \in Procs |-> "idle"]
    /\ parsed = [p \in Procs |-> NoData]
    /\ idx = [p \in Procs |-> 0]
    /\ outcomes = [p \in Procs |-> <<>>]
    /\ created = [p \in Procs |-> {}]
    /\ surfaced = [p \in Procs |-> "none"]
    /\ processed = [p \in BackfillTasks |-> NoneProcessed]
    /\ reingest = [p \in Procs |-> FALSE]
    /\ seen = [p \in Procs |-> "none"]
    /\ ingested = {}
    /\ calls = 0
    /\ api = NoApi

\* the record being processed
Cur(p) == parsed[p].player_results[idx[p]]

\* where an activity is when it is not in the record loop of a message: the
\* live handler has returned, the backfill awaits the next message of the
\* history
Rest(p) == IF p = "live" THEN "idle" ELSE "scan"

\* the message is passed over without touching the store: the live handler
\* returns, the backfill goes on to the next message (nothing is replied)
NoEffect(p) ==
    /\ pc' = [pc EXCEPT ![p] = Rest(p)]
    /\ parsed' = [parsed EXCEPT ![p] = NoData]
    /\ idx' = [idx EXCEPT ![p] = 0]
    /\ outcomes' = [outcomes EXCEPT ![p] = <<>>]
    /\ created' = [created EXCEPT ![p] = {}]
    /\ surfaced' = [surfaced EXCEPT ![p] = IF p = "live" THEN "no_effect" ELSE @]
    /\ reingest' = [reingest EXCEPT ![p] = FALSE]
    /\ UNCHANGED processed

\* parse the message; enter the loop over player_results when it parses
Start(p, m) ==
    LET data == parse_wordlebot_message(m)
    IN IF data = NoData THEN NoEffect(p)
       ELSE /\ pc' = [pc EXCEPT ![p] = "user"]
            /\ parsed' = [parsed EXCEPT ![p] = data]
            /\ idx' = [idx EXCEPT ![p] = 1]
            /\ outcomes' = [outcomes EXCEPT ![p] = <<>>]
            /\ created' = [created EXCEPT ![p] = {}]
            /\ surfaced' = [surfaced EXCEPT ![p] = "none"]
            /\ reingest' = [reingest EXCEPT ![p] = data \in ingested]
            /\ UNCHANGED processed
            \* validate_parsed_data holds of every result of the parser

\* what the caller gets when an exception left the loop: the live handler
\* logs it and returns, the backfill command logs it and replies with an error
Failed(p) == IF p = "live" THEN "returned" ELSE "reply_error"

\* record the outcome of the current record and go to the next one; after
\* the last record the live handler returns, and the backfill counts the
\* message and awaits the next one (its reply comes after the scan)
Advance(p, oc) ==
    /\ outcomes' = [outcomes EXCEPT ![p] = Append(@, oc)]
    /\ IF idx[p] < Len(parsed[p].player_results)
       THEN /\ idx' = [idx EXCEPT ![p] = @ + 1]
            /\ pc' = [pc EXCEPT ![p] = "user"]
            /\ UNCHANGED <<surfaced, ingested>>
       ELSE /\ pc' = [pc EXCEPT ![p] = Rest(p)]
            /\ surfaced' = [surfaced EXCEPT ![p] = IF p = "live" THEN "returned" ELSE @]
            /\ ingested' = ingested \cup {parsed[p]}
            /\ UNCHANGED idx
    /\ processed' =
          IF p = "live" THEN processed
          ELSE [processed EXCEPT ![p] =
                   [messages |-> @.messages
                                   + (IF idx[p] < Len(parsed[p].player_results) THEN 0 ELSE 1),
                    results |-> @.results + (IF oc = "inserted" THEN 1 ELSE 0)]]
    /\ UNCHANGED <<parsed, reingest, seen>>

\* an exception leaves the loop; in the backfill it ends the scan as well
Abort(p, err) ==
    /\ outcomes' = [outcomes EXCEPT ![p] = Append(@, err)]
    /\ pc' = [pc EXCEPT ![p] = "idle"]
    /\ surfaced' = [surfaced EXCEPT ![p] = Failed(p)]
    /\ UNCHANGED <<parsed, idx, processed, reingest, seen, ingested>>

(* ------------------------------ handlers ----------------------------- *)
\* WordleLeaderboardBot.on_message
on_message(m) ==
    /\ pc["live"] = "idle"
    /\ calls < MaxCalls
    /\ calls' = calls + 1
    /\ IF m.bot THEN NoEffect("live")
       ELSE IF is_wordlebot_message(m) THEN Start("live", m)
       ELSE NoEffect("live")
    /\ seen' = [seen EXCEPT !["live"] = Classify(m)]
    /\ UNCHANGED <<use_postgres, users, games, games_id_seq, ingested, api>>

\* backfill: the command is invoked by a caller without the manage_guild
\* permission, who is turned away with a reply; nothing else changes, whatever
\* the other tasks are doing
backfill_refused ==
    /\ calls < MaxCalls
    /\ calls' = calls + 1
    /\ UNCHANGED <<use_postgres, users, games, games_id_seq, procVars, ingested, api>>

\* backfill: the command is invoked by a caller with the manage_guild
\* permission, while other commands may be scanning; the task awaits
\* interaction.response.defer.  (The tasks are alike, so a new command is
\* named "backfill" unless that one is under way.)
backfill(p) ==
    /\ pc[p] = "idle"
    /\ p = "backfill" \/ pc["backfill"] # "idle"
    /\ pc' = [pc EXCEPT ![p] = "defer"]
    /\ surfaced' = [surfaced EXCEPT ![p] = "none"]
    /\ parsed' = [parsed EXCEPT ![p] = NoData]
    /\ idx' = [idx EXCEPT ![p] = 0]
    /\ outcomes' = [outcomes EXCEPT ![p] = <<>>]
    /\ created' = [created EXCEPT ![p] = {}]
    /\ reingest' = [reingest EXCEPT ![p] = FALSE]
    /\ seen' = [seen EXCEPT ![p] = "none"]
    /\ UNCHANGED <<use_postgres, users, games, games_id_seq, processed, ingested,
                   calls, api>>

\* backfill: the response is deferred; the counters are zeroed and the scan
\* of target_channel.history begins
backfill_deferred(p) ==
    /\ pc[p] = "defer"
    /\ pc' = [pc EXCEPT ![p] = "scan"]
    /\ processed' = [processed EXCEPT ![p] = NoneProcessed]
    /\ UNCHANGED <<use_postgres, users, games, games_id_seq, parsed, idx, outcomes,
                   created, surfaced, reingest, seen, ingested, calls, api>>

\* backfill: the history hands out its next message
backfill_message(p, m) ==
    /\ pc[p] = "scan"
    /\ calls < MaxCalls
    /\ calls' = calls + 1
    /\ IF is_wordlebot_message(m) THEN Start(p, m)
       ELSE NoEffect(p)
    /\ seen' = [seen EXCEPT ![p] = Classify(m)]
    /\ UNCHANGED <<use_postgres, users, games, games_id_seq, ingested, api>>

\* backfill: the history is exhausted; the one reply of the command reports
\* processed_messages and processed_results, and the task ends
backfill_followup(p) ==
    /\ pc[p] = "scan"
    /\ pc' = [pc EXCEPT ![p] = "idle"]
    /\ surfaced' = [surfaced EXCEPT ![p] = "reply_complete"]
    /\ parsed' = [parsed EXCEPT ![p] = NoData]
    /\ idx' = [idx EXCEPT ![p] = 0]
    /\ outcomes' = [outcomes EXCEPT ![p] = <<>>]
    /\ created' = [created EXCEPT ![p] = {}]
    /\ reingest' = [reingest EXCEPT ![p] = FALSE]
    /\ seen' = [seen EXCEPT ![p] = "none"]
    /\ UNCHANGED <<use_postgres, users, games, games_id_seq, processed, ingested,
                   calls, api>>

\* get_user_from_mention returned None: the record is skipped
UserNotFound(p) ==
    /\ pc[p] = "user"
    /\ ~get_user_from_mention(Cur(p).user_id)
    /\ Advance(p, "nouser")
    /\ UNCHANGED <<use_postgres, users, games, games_id_seq, created, calls, api>>

\* add_or_update_user commits the user row
UpsertUserOk(p) ==
    /\ pc[p] = "user"
    /\ get_user_from_mention(Cur(p).user_id)
    /\ add_or_update_user(users, use_postgres, Cur(p).user_id).raised = "none"
    /\ users' = add_or_update_user(users, use_postgres, Cur(p).user_id).users
    /\ created' = [created EXCEPT ![p] =
                      IF Cur(p).user_id \in users THEN @ ELSE @ \cup {Cur(p).user_id}]
    /\ pc' = [pc EXCEPT ![p] = "select"]
    /\ UNCHANGED <<use_postgres, games, games_id_seq, parsed, idx, outcomes, surfaced, processed,
                   reingest, seen, ingested, calls, api>>

\* add_or_update_user raises (TypeError on SQLite)
UpsertUserRaises(p) ==
    /\ pc[p] = "user"
    /\ get_user_from_mention(Cur(p).user_id)
    /\ add_or_update_user(users, use_postgres, Cur(p).user_id).raised # "none"
    /\ Abort(p, add_or_update_user(users, use_postgres, Cur(p).user_id).raised)
    /\ UNCHANGED <<use_postgres, users, games, games_id_seq, created, calls, api>>

\* the INSERT of the current record against the table as it is now
Insert(p) ==
    InsertGame(users, games, games_id_seq, Cur(p).user_id, parsed[p].wordle_number,
               parsed[p].game_date, Cur(p).guesses, Cur(p).success)

\* how far a storage call got when the connection failed: the statement did
\* not run (psycopg.connect failed, or the connection was lost first); the
\* statement ran and its transaction was not committed; the commit was
\* applied and the connection was lost before the client learnt of it
OutagePoints == {"before", "uncommitted", "committed"}

\* the database becomes unreachable during add_or_update_user or
\* add_game_result: the call raises OperationalError.  On SQLite this is
\* sqlite3.connect failing to open the file, before any statement.  On
\* Postgres an INSERT INTO games that ran has drawn its id from the sequence,
\* whether it passed the constraints or not and committed or not; only an
\* INSERT that passed them can have been committed.
StorageOutage(p, point) ==
    /\ pc[p] \in {"user", "select", "insert"}
    /\ pc[p] = "user" => get_user_from_mention(Cur(p).user_id)
    /\ ~use_postgres => point = "before"
    /\ pc[p] = "select" => point = "before"
    /\ pc[p] = "insert" /\ point = "committed" => Insert(p).raised = "none"
    /\ users' = IF pc[p] = "user" /\ point = "committed"
                THEN UpsertUser(users, Cur(p).user_id) ELSE users
    /\ created' = [created EXCEPT ![p] =
                      IF pc[p] = "user" /\ point = "committed" /\ Cur(p).user_id \notin users
                      THEN @ \cup {Cur(p).user_id} ELSE @]
    /\ games' = IF pc[p] = "insert" /\ point = "committed" THEN Insert(p).games ELSE games
    /\ games_id_seq' = IF pc[p] = "insert" /\ point # "before"
                       THEN Insert(p).seq ELSE games_id_seq
    /\ Abort(p, "OperationalError")
    /\ UNCHANGED <<use_postgres, calls, api>>

\* add_game_result: the duplicate check finds the row and returns False
SelectFound(p) ==
    /\ pc[p] = "select"
    /\ SelectGame(games, Cur(p).user_id, parsed[p].wordle_number, parsed[p].game_date) # {}
    /\ Advance(p, "duplicate")
    /\ UNCHANGED <<use_postgres, users, games, games_id_seq, created, calls, api>>

\* add_game_result: the duplicate check finds nothing
SelectMiss(p) ==
    /\ pc[p] = "select"
    /\ SelectGame(games, Cur(p).user_id, parsed[p].wordle_number, parsed[p].game_date) = {}
    /\ pc' = [pc EXCEPT ![p] = "insert"]
    /\ UNCHANGED <<use_postgres, users, games, games_id_seq, parsed, idx, outcomes, created, surfaced,
                   processed, reingest, seen, ingested, calls, api>>

\* add_game_result: the INSERT commits and the call returns True
InsertOk(p) ==
    /\ pc[p] = "insert"
    /\ Insert(p).raised = "none"
    /\ games' = Insert(p).games
    /\ games_id_seq' = Insert(p).seq
    /\ Advance(p, "inserted")
    /\ UNCHANGED <<use_postgres, users, created, calls, api>>

\* add_game_result: the INSERT hits UNIQUE(user_id, wordle_number, game_date);
\* psycopg raises UniqueViolation, which nothing in add_game_result catches
\* (the upsert has committed the user row, so the foreign key always holds)
InsertRaises(p) ==
    /\ pc[p] = "insert"
    /\ Insert(p).raised # "none"
    /\ games' = Insert(p).games
    /\ games_id_seq' = Insert(p).seq
    /\ Abort(p, Insert(p).raised)
    /\ UNCHANGED <<use_postgres, users, created, calls, api>>

(* --------------------- direct calls of the database ------------------ *)
\* the dates and the round number a direct caller passes
DbDates == {0, 1}
DbNumbers == {1}

\* WordleDatabase.add_or_update_user(user_id, ...) called directly
db_add_or_update_user(u) ==
    /\ users' = add_or_update_user(users, use_postgres, u).users
    /\ api' = [NoApi EXCEPT !.op = "add_or_update_user",
                             !.ret = add_or_update_user(users, use_postgres, u).raised]
    /\ UNCHANGED <<use_postgres, games, games_id_seq, procVars, ingested, calls>>

\* WordleDatabase.add_game_result(user_id, wordle_number, game_date, guesses,
\* success) called directly
db_add_game_result(u, n, d, guesses, success) ==
    LET r == add_game_result(users, games, games_id_seq, use_postgres,
                             u, n, d, guesses, success)
    IN /\ games_id_seq < MaxIdSeq
       /\ games' = r.games
       /\ games_id_seq' = r.seq
       /\ api' = [op |-> "add_game_result", guesses |-> guesses, success |-> success,
                  score |-> r.score, ret |-> r.ret]
       /\ UNCHANGED <<use_postgres, users, procVars, ingested, calls>>

NextDb ==
    \/ \E u \in {1} : db_add_or_update_user(u)
    \/ \E u \in {1}, n \in DbNumbers, d \in DbDates, g \in 0..MaxGuessArg, s \in BOOLEAN :
          db_add_game_result(u, n, d, g, s)

\* the database class driven directly, one call at a time
SpecDb == Init /\ [][NextDb]_vars

(* ---------------------- direct calls for the streaks ----------------- *)
\* the rows written before a streak query: user 1 on any of the days
\* 0..MaxStreakDay, and a second time on the last day (another round number)
StreakKeys ==
    {[user_id |-> 1, wordle_number |-> 1, game_date |-> d] : d \in 0..MaxStreakDay}
    \cup {[user_id |-> 1, wordle_number |-> 2, game_date |-> MaxStreakDay]}

\* WordleDatabase.get_user_streak(user_id) called directly
db_get_user_streak(u) ==
    /\ api' = [op |-> "get_user_streak", user_id |-> u, ret |-> get_user_streak(games, u)]
    /\ UNCHANGED <<use_postgres, users, games, games_id_seq, procVars, ingested, calls>>

NextStreak ==
    \/ \E u \in {1} : db_add_or_update_user(u)
    \/ \E k \in StreakKeys :
          db_add_game_result(k.user_id, k.wordle_number, k.game_date, 3, TRUE)
    \/ \E u \in {1, 2} : db_get_user_streak(u)

\* rows written by direct calls, then streak queries
SpecStreak == Init /\ [][NextStreak]_vars

(* ------------------ direct calls for stats and leaderboard ----------- *)
\* the days on which a query runs: 2021-07-01 (a Thursday, the week began on
\* day 9), 2021-07-05 (a Monday) and 2021-07-07 (a Wednesday, the week began
\* on day 16).  The writers of the bot date a row the day before its message
\* (bot.py 186, 571), so the rows below, dated day 12 at the latest, are in
\* the store on each of these days.
TodayInputs == {12, 16, 18}

\* the results written before a query
\*   user 1: day -536 (the day before the alltime start), failed
\*   user 1: day 12, 2 attempts      user 2: day 9 and day 12, 5 attempts
\*   user 3: day 12, 2 attempts
StatsRows ==
    {[user_id |-> 1, game_date |-> AllTimeStart - 1, guesses |-> 6, success |-> FALSE],
     [user_id |-> 1, game_date |-> 12, guesses |-> 2, success |-> TRUE],
     [user_id |-> 2, game_date |-> 9, guesses |-> 5, success |-> TRUE],
     [user_id |-> 2, game_date |-> 12, guesses |-> 5, success |-> TRUE],
     [user_id |-> 3, game_date |-> 12, guesses |-> 2, success |-> TRUE]}

\* the limits passed to get_leaderboard
LimitInputs == {1, 10}

\* two orders in which the database may emit rows that tie: by ascending and
\* by descending user_id
TieOrders == {[u \in UserIds |-> u], [u \in UserIds |-> MaxUser + 1 - u]}

\* WordleDatabase.get_user_stats(user_id, period_type) called directly
db_get_user_stats(u, today, period_type) ==
    /\ api' = [op |-> "get_user_stats", user_id |-> u, today |-> today,
               period |-> period_type,
               ret |-> get_user_stats(games, u, today, period_type)]
    /\ UNCHANGED <<use_postgres, users, games, games_id_seq, procVars, ingested, calls>>

\* WordleDatabase.get_leaderboard(period_type, limit) called directly
db_get_leaderboard(today, period_type, limit, tie) ==
    /\ api' = [op |-> "get_leaderboard", today |-> today, period |-> period_type,
               limit |-> limit,
               ret |-> get_leaderboard(users, games, today, period_type, limit, tie)]
    /\ UNCHANGED <<use_postgres, users, games, games_id_seq, procVars, ingested, calls>>

\* WordleDatabase.get_user_rank(user_id, period_type) called directly
db_get_user_rank(u, today, period_type, tie) ==
    /\ api' = [op |-> "get_user_rank", user_id |-> u, today |-> today,
               period |-> period_type,
               ret |-> get_user_rank(users, games, u, today, period_type, tie)]
    /\ UNCHANGED <<use_postgres, users, games, games_id_seq, procVars, ingested, calls>>

NextStats ==
    \/ \E u \in UserIds : db_add_or_update_user(u)
    \/ \E r \in StatsRows :
          db_add_game_result(r.user_id, 1, r.game_date, r.guesses, r.success)
    \/ \E u \in UserIds, t \in TodayInputs, p \in Periods : db_get_user_stats(u, t, p)
    \/ \E t \in TodayInputs, p \in Periods, l \in LimitInputs, tie \in TieOrders :
          db_get_leaderboard(t, p, l, tie)

\* rows written by direct calls, then stats, leaderboard and rank queries
SpecStats == Init /\ [][NextStats]_vars

(* ----------------------- rank in a large leaderboard ----------------- *)
\* the store after the results of N participants were ingested on Postgres,
\* one message line each: every participant has one row of round 1, played
\* on day 11 with 3 attempts; N is RankLimit or RankLimit + 1
RankStore(n) ==
    {[id |-> u, user_id |-> u, wordle_number |-> 1, game_date |-> 11,
      guesses |-> 3, score |-> Score(3, TRUE), success |-> TRUE] : u \in 1..n}

InitRank ==
    /\ use_postgres = TRUE
    /\ \E n \in {RankLimit, RankLimit + 1} :
          users = 1..n /\ games = RankStore(n) /\ games_id_seq = n
    /\ pc = [p \in Procs |-> "idle"]
    /\ parsed = [p \in Procs |-> NoData]
    /\ idx = [p \in Procs |-> 0]
    /\ outcomes = [p \in Procs |-> <<>>]
    /\ created = [p \in Procs |-> {}]
    /\ surfaced = [p \in Procs |-> "none"]
    /\ processed = [p \in BackfillTasks |-> NoneProcessed]
    /\ reingest = [p \in Procs |-> FALSE]
    /\ seen = [p \in Procs |-> "none"]
    /\ ingested = {}
    /\ calls = 0
    /\ api = NoApi

\* the participants whose rank is queried: the first MaxRankQuery and the
\* last two of the largest store
RankQueryUsers == (1..MaxRankQuery) \cup {RankLimit, RankLimit + 1}

\* rows that tie are emitted by ascending or by descending user_id
RankTies ==
    {[u \in users |-> u], [u \in users |-> Cardinality(users) + 1 - u]}

\* one rank query on the large store
NextRank ==
    /\ api = NoApi
    /\ \E u \in RankQueryUsers \cap users, tie \in RankTies :
          db_get_user_rank(u, 12, "alltime", tie)

SpecRank == InitRank /\ [][NextRank]_vars

(* ---------------------- direct calls of the parser ------------------- *)
\* The parser keeps no state between calls, so a behaviour is one call.
\* the messages handed to the parser: any author (bot or not, named like
\* WordleBot or not), created on day 0..MaxDay (on day 0 the round date is the
\* day before the epoch), with at most one line
ParserAuthors == [bot : BOOLEAN, named : BOOLEAN]

ParserMessages ==
    {[bot |-> a.bot, named |-> a.named, header |-> h, marker |-> k, day |-> d, lines |-> ls] :
        a \in ParserAuthors, h \in BOOLEAN, k \in MarkerInputs, d \in 0..MaxDay,
        ls \in {l \in LineSeqs : Len(l) <= 1}}

\* WordleMessageParser.is_wordlebot_message(message) called directly
parser_is_wordlebot_message(m) ==
    /\ api = NoApi
    /\ api' = [op |-> "is_wordlebot_message", m |-> m, ret |-> is_wordlebot_message(m)]
    /\ UNCHANGED <<use_postgres, users, games, games_id_seq, procVars, ingested, calls>>

\* WordleMessageParser.parse_wordlebot_message(message) called directly
parser_parse_wordlebot_message(m) ==
    /\ api = NoApi
    /\ api' = [op |-> "parse_wordlebot_message", m |-> m, ret |-> parse_wordlebot_message(m)]
    /\ UNCHANGED <<use_postgres, users, games, games_id_seq, procVars, ingested, calls>>

\* the lines handed to parse_player_results: no mention, "<@!2>" or
\* "<@!2> <@!3>"; no name, "@Alice", "@Bob" (nobody's name), "@alice @Bob"
\* or "@User" (member 2 but for the case);
\* no score token, "3/6", "X/6 2/6" or "4/6 x/6"
ResultLineInputs ==
    {[mentions |-> ms, plains |-> ps, toks |-> ts] :
        ms \in {<<>>, <<2>>, <<2, 3>>},
        ps \in {<<>>, <<NameAlice>>, <<NameBob>>, <<NameAliceLower, NameBob>>, <<NameUser>>},
        ts \in {<<>>, <<"3">>, <<"X", "2">>, <<"4", "x">>}}

\* results summaries of up to MaxLines of these lines
ResultMessages ==
    {[bot |-> FALSE, named |-> FALSE, header |-> TRUE, marker |-> 1, day |-> 1, lines |-> ls] :
        ls \in UNION {[1..k -> ResultLineInputs] : k \in 0..MaxLines}}

\* WordleMessageParser.parse_player_results(message) called directly, in a
\* guild
parser_parse_player_results(m) ==
    /\ api = NoApi
    /\ api' = [op |-> "parse_player_results", m |-> m, ret |-> parse_player_results(m.lines)]
    /\ UNCHANGED <<use_postgres, users, games, games_id_seq, procVars, ingested, calls>>

NextParser ==
    \/ \E m \in ParserMessages : parser_is_wordlebot_message(m)
    \/ \E m \in ParserMessages : parser_parse_wordlebot_message(m)
    \/ \E m \in ResultMessages : parser_parse_player_results(m)

\* the parser class driven directly, one call at a time
SpecParser == Init /\ [][NextParser]_vars

\* the messages that can still arrive: none once MaxCalls were handled
Arriving(messages) == IF calls < MaxCalls THEN messages ELSE {}

Next ==
    \/ \E m \in Arriving(Messages) : on_message(m)
    \/ backfill_refused
    \/ \E p \in BackfillTasks : backfill(p)
    \/ \E p \in BackfillTasks : backfill_deferred(p)
    \/ \E p \in BackfillTasks, m \in Arriving(Messages) : backfill_message(p, m)
    \/ \E p \in BackfillTasks : backfill_followup(p)
    \/ \E p \in Procs : UserNotFound(p)
    \/ \E p \in Procs : UpsertUserOk(p)
    \/ \E p \in Procs : UpsertUserRaises(p)
    \/ \E p \in Procs, point \in OutagePoints : StorageOutage(p, point)
    \/ \E p \in Procs : SelectFound(p)
    \/ \E p \in Procs : SelectMiss(p)
    \/ \E p \in Procs : InsertOk(p)
    \/ \E p \in Procs : InsertRaises(p)

Spec == Init /\ [][Next]_vars

(* ------------------- ingestion of every score token ------------------ *)
\* what score_pattern ([0-6]|X)/6, IGNORECASE, can capture
ScoreTokens == {"0", "1", "2", "3", "4", "5", "6", "X", "x"}

\* "<@!u> t/6" for a member and for the user the client cannot resolve
ScoreTokenLines ==
    {[mentions |-> <<u>>, plains |-> <<>>, toks |-> <<t>>] :
        u \in {1, MaxUser}, t \in ScoreTokens}

\* a results summary "Wordle No. 1" of one such line, posted by a person
ScoreTokenMessages ==
    {[bot |-> FALSE, named |-> FALSE, header |-> TRUE, marker |-> 1, day |-> d, lines |-> <<l>>] :
        d \in Days, l \in ScoreTokenLines}

NextScoreTokens ==
    \/ \E m \in Arriving(ScoreTokenMessages) : on_message(m)
    \/ backfill_refused
    \/ \E p \in BackfillTasks : backfill(p)
    \/ \E p \in BackfillTasks : backfill_deferred(p)
    \/ \E p \in BackfillTasks, m \in Arriving(ScoreTokenMessages) : backfill_message(p, m)
    \/ \E p \in BackfillTasks : backfill_followup(p)
    \/ \E p \in Procs : UserNotFound(p)
    \/ \E p \in Procs : UpsertUserOk(p)
    \/ \E p \in Procs : UpsertUserRaises(p)
    \/ \E p \in Procs, point \in OutagePoints : StorageOutage(p, point)
    \/ \E p \in Procs : SelectFound(p)
    \/ \E p \in Procs : SelectMiss(p)
    \/ \E p \in Procs : InsertOk(p)
    \/ \E p \in Procs : InsertRaises(p)

\* the two handlers fed with one-line summaries of every score token
SpecScoreTokens == Init /\ [][NextScoreTokens]_vars

(* ------------------------------ properties --------------------------- *)
Last(seq) == seq[Len(seq)]

SameTriple(r1, r2) ==
    /\ r1.user_id = r2.user_id
    /\ r1.wordle_number = r2.wordle_number
    /\ r1.game_date = r2.game_date

\* the stored rows of one key
RowsOf(u, n, d) ==
    {r \in games : r.user_id = u /\ r.wordle_number = n /\ r.game_date = d}

\* the stored rows of the key of record i of the call of p
RowsOfRecord(p, i) ==
    RowsOf(parsed[p].player_results[i].user_id, parsed[p].wordle_number,
           parsed[p].game_date)

\* p is not in the record loop of a message
AtRest(p) == pc[p] \in {"idle", "defer", "scan"}

\* the last message of p went past the parser and its record loop is over
Finished(p) == AtRest(p) /\ parsed[p] # NoData

\* no storage outage hit the call of p
NoOutage(p) ==
    \A i \in 1..Len(outcomes[p]) : outcomes[p][i] # "OperationalError"

StorageErrors == {"TypeError", "OperationalError", "UniqueViolation", "ForeignKeyViolation"}

\* the keys the call of p tried to insert
Attempted(p) ==
    {<<parsed[p].player_results[i].user_id, parsed[p].wordle_number, parsed[p].game_date>> :
        i \in {j \in 1..Len(outcomes[p]) : outcomes[p][j] \notin {"nouser", "OperationalError"}}}

\* C1: no two rows ever share (participant_id, round_id, round_date), and once
\* two activities (the live handler and a backfill, or two backfills) that
\* both tried to insert a key have finished, exactly one row with that key is
\* stored.
C1_ExactlyOneRowPerRacedKey ==
    /\ \A r1, r2 \in games : SameTriple(r1, r2) => r1 = r2
    /\ (\A p \in Procs : AtRest(p)) =>
          \A p, q \in Procs :
              p # q => \A k \in Attempted(p) \cap Attempted(q) :
                          Cardinality(RowsOf(k[1], k[2], k[3])) = 1

\* C2: an attempt that passed the duplicate check and then finds the key
\* stored when it inserts (it lost at the uniqueness constraint) ends with the
\* duplicate outcome, not with an error.
C2_ConstraintLoserGetsDuplicate ==
    [][\A p \in Procs :
          (pc[p] = "insert" /\ pc'[p] # "insert" /\ RowsOfRecord(p, idx[p]) # {})
             => Last(outcomes'[p]) = "duplicate"]_vars

\* C3: a second ingestion of a message that was ingested before stores
\* nothing and reports every record of the message as a duplicate.
C3_SecondPassAllDuplicate ==
    \A p \in Procs :
        (Finished(p) /\ reingest[p] /\ NoOutage(p)) =>
            /\ Len(outcomes[p]) = Len(parsed[p].player_results)
            /\ \A i \in 1..Len(outcomes[p]) : outcomes[p][i] = "duplicate"

\* C4 as claimed: no two stored rows share participant_id and round_id.
C4_OneRowPerParticipantAndRound ==
    \A r1, r2 \in games :
        (r1.user_id = r2.user_id /\ r1.wordle_number = r2.wordle_number) => r1 = r2

\* C4 as amended: no two stored rows share participant_id, round_id and
\* round_date; rows of one participant and round may differ in round_date.
C4_OneRowPerTriple ==
    \A r1 \in games : \A r2 \in games \ {r1} : ~SameTriple(r1, r2)

\* two rows of one participant and round on different dates, after an attempt
\* on a stored triple was turned away
C4_Witness ==
    /\ \E r1, r2 \in games :
          /\ r1.user_id = r2.user_id /\ r1.wordle_number = r2.wordle_number
          /\ r1.game_date # r2.game_date
    /\ \E p \in Procs : \E i \in 1..Len(outcomes[p]) :
          outcomes[p][i] \in {"duplicate", "UniqueViolation"}

\* C5: a stored row is never changed or removed by any step.
C5_AppendOnly == [][\A r \in games : r \in games']_vars

\* a record with another attempt count than the stored row of its key was
\* turned away, and the row is as it was written
C5_Witness ==
    \E p \in Procs : \E i \in 1..Len(outcomes[p]) : \E r \in RowsOfRecord(p, i) :
        /\ outcomes[p][i] = "duplicate"
        /\ r.guesses # parsed[p].player_results[i].guesses
        /\ r.success # parsed[p].player_results[i].success

\* the score rule of the claim
ClaimedScore(guesses, success, score) ==
    /\ (success /\ guesses \in 1..6) => score = 8 - guesses
    /\ ~success => score = 1

\* C6: the score add_game_result computes and stores is 8 - attempt_count for a
\* success with 1..6 attempts and 1 for a failure with any attempt count.
C6_ScoreDeterminism ==
    /\ api.op = "add_game_result" => ClaimedScore(api.guesses, api.success, api.score)
    /\ \A r \in games : ClaimedScore(r.guesses, r.success, r.score)

\* a failure with 2 attempts is stored with score 1 next to a success with 1
\* attempt and score 7
C6_Witness ==
    /\ \E r \in games : ~r.success /\ r.guesses = 2 /\ r.score = 1
    /\ \E r \in games : r.success /\ r.guesses = 1 /\ r.score = 7

\* the positions of participant u in the message of p
Positions(p, u) ==
    {i \in 1..Len(parsed[p].player_results) : parsed[p].player_results[i].user_id = u}

FirstPosition(p, u) == CHOOSE i \in Positions(p, u) : \A j \in Positions(p, u) : i <= j

\* C7: after a call on a message that names a participant on several score
\* lines, exactly one row of that participant and round is stored, every later
\* line of the participant was rejected as a duplicate, and a row the call
\* inserted carries the values of the first line.
C7_OneRowForRepeatedParticipant ==
    \A p \in Procs : \A u \in Members :
        (Finished(p) /\ NoOutage(p) /\ Cardinality(Positions(p, u)) > 1) =>
            /\ Cardinality(RowsOf(u, parsed[p].wordle_number, parsed[p].game_date)) = 1
            /\ \A j \in Positions(p, u) \ {FirstPosition(p, u)} :
                  j <= Len(outcomes[p]) /\ outcomes[p][j] = "duplicate"
            /\ (FirstPosition(p, u) <= Len(outcomes[p])
                /\ outcomes[p][FirstPosition(p, u)] = "inserted") =>
                  \A r \in RowsOf(u, parsed[p].wordle_number, parsed[p].game_date) :
                      /\ r.guesses = parsed[p].player_results[FirstPosition(p, u)].guesses
                      /\ r.success = parsed[p].player_results[FirstPosition(p, u)].success

\* C8: after a call, every record that follows a record rejected as a duplicate
\* (its key was stored already) and names a resolvable participant is stored.
C8_DuplicateDoesNotAbort ==
    \A p \in Procs :
        (Finished(p) /\ NoOutage(p)) =>
            \A i \in 1..Len(outcomes[p]) : \A j \in 1..Len(parsed[p].player_results) :
                (/\ i < j
                 /\ outcomes[p][i] \in {"duplicate", "UniqueViolation"}
                 /\ parsed[p].player_results[j].user_id \in Members)
                    => RowsOfRecord(p, j) # {}

\* C9: a call in which a storage call failed ends as a failure for its caller.
C9_StorageFailureSurfaced ==
    \A p \in Procs :
        (pc[p] = "idle" /\ outcomes[p] # <<>> /\ Last(outcomes[p]) \in StorageErrors)
            => surfaced[p] \in {"raised", "reply_error"}

\* C10: after a call, every participant the call created has the RoundResult
\* of the call's round, or the record was rejected as a duplicate.
C10_NoParticipantWithoutResult ==
    \A p \in Procs :
        AtRest(p) =>
            \A u \in created[p] :
                \/ RowsOf(u, parsed[p].wordle_number, parsed[p].game_date) # {}
                \/ \E i \in Positions(p, u) :
                      i <= Len(outcomes[p]) /\ outcomes[p][i] = "duplicate"

\* C11: a call on a message that is not a results summary, or that is one but
\* yields no record or no round number, is over at once with the no-effect
\* outcome: it performs no storage operation, creates no participant, persists
\* no row, and nothing is raised to its caller.
C11_RejectedMessagePersistsNothing ==
    \A p \in Procs :
        seen[p] \in {"not_detected", "no_records", "no_round"} =>
            /\ AtRest(p)
            /\ IF p = "live" THEN surfaced[p] = "no_effect"
               ELSE surfaced[p] \in {"none", "reply_complete"}
            /\ outcomes[p] = <<>>
            /\ created[p] = {}
            /\ parsed[p] = NoData

\* the backfill stored rows, then the live handler turned away a results
\* summary for its missing round number, and the rows are still there
C11_Witness ==
    /\ games # {}
    /\ users # {}
    /\ pc["backfill"] = "idle"
    /\ seen["live"] = "no_round"
    /\ surfaced["live"] = "no_effect"

\* C12: the live handler ingests every message that is a results summary with
\* a round number and a record of a resolvable participant, whoever its
\* author is: the call goes on to the storage operations of its records.
C12_LiveHandlerIngestsDetected ==
    seen["live"] = "ingestible" => surfaced["live"] # "no_effect"

\* day count from the epoch (day 0) to the round date of a message
DayCount(m) == m.day - 1

\* C13: for a results summary with records, the round id is the number of
\* the round-number marker whenever the marker is present; without a marker
\* it is the day count from the epoch to the round date whenever that count
\* is not negative; the message is rejected only when the marker is absent
\* and the count is negative.
C13_RoundIdResolution ==
    (/\ api.op = "parse_wordlebot_message"
     /\ is_wordlebot_message(api.m)
     /\ parse_player_results(api.m.lines) # <<>>) =>
        /\ api.m.marker # NoMarker =>
              api.ret # NoData /\ api.ret.wordle_number = api.m.marker
        /\ (api.m.marker = NoMarker /\ DayCount(api.m) >= 0) =>
              api.ret # NoData /\ api.ret.wordle_number = DayCount(api.m)
        /\ api.ret = NoData =>
              api.m.marker = NoMarker /\ DayCount(api.m) < 0

\* the detection rule of the claim
ClaimedDetection(m) ==
    /\ ~TextEmpty(m)
    /\ \/ m.header /\ m.marker # NoMarker
       \/ m.bot /\ m.named /\ HasScore(m)

\* C20: is_wordlebot_message returns true exactly for a non-empty corpus that
\* has both the results header and a round-number marker, or whose author is
\* a bot named like WordleBot and that contains a score; a header without a
\* marker and without the bot-author fallback is not detected; the call
\* returns a boolean and raises nothing.
C20_DetectionRule ==
    api.op = "is_wordlebot_message" =>
        /\ api.ret \in BOOLEAN
        /\ api.ret = ClaimedDetection(api.m)
        /\ (api.m.header /\ api.m.marker = NoMarker /\ ~(api.m.bot /\ api.m.named)) =>
              api.ret = FALSE

\* a header without a marker, from a bot not named like WordleBot, with a
\* score line: not detected
C20_Witness ==
    /\ api.op = "is_wordlebot_message"
    /\ api.m.header /\ api.m.marker = NoMarker
    /\ api.m.bot /\ ~api.m.named /\ HasScore(api.m)
    /\ api.ret = FALSE

\* the number of consecutive days of S that end on day d
RunEndingAt(S, d) ==
    CHOOSE k \in 0..Cardinality(S) :
        /\ \A i \in 0..(k - 1) : (d - i) \in S
        /\ (d - k) \notin S

\* the play dates of participant u in the whole history
PlayDates(u) == {r.game_date : r \in {g \in games : g.user_id = u}}

\* C18: current_streak is the length of the maximal run of consecutive
\* distinct play dates that ends on the participant's most recent play date,
\* taken over the whole history.
C18_CurrentStreak ==
    api.op = "get_user_streak" =>
        api.ret.current_streak =
            IF PlayDates(api.user_id) = {} THEN 0
            ELSE RunEndingAt(PlayDates(api.user_id), MaxOf(PlayDates(api.user_id)))

\* the play dates {D, D-1, D-3, D-4} with D = MaxStreakDay, two rows on D:
\* the current streak is 2
C18_Witness ==
    /\ api.op = "get_user_streak" /\ api.user_id = 1
    /\ PlayDates(1) = ((MaxStreakDay - 4)..MaxStreakDay) \ {MaxStreakDay - 2}
    /\ Cardinality({g \in games : g.user_id = 1 /\ g.game_date = MaxStreakDay}) = 2
    /\ api.ret.current_streak = 2

\* C19: longest_streak is the length of the longest run of consecutive
\* distinct play dates anywhere in the history, a run the dates end with
\* included.
C19_LongestStreak ==
    api.op = "get_user_streak" =>
        api.ret.longest_streak =
            IF PlayDates(api.user_id) = {} THEN 0
            ELSE MaxOf({RunEndingAt(PlayDates(api.user_id), d) : d \in PlayDates(api.user_id)})

\* the play dates {D-5, D-4, D-2, D-1, D}: the longest run, of length 3, is
\* the last one in date order
C19_Witness ==
    /\ api.op = "get_user_streak" /\ api.user_id = 1
    /\ PlayDates(1) = (0..MaxStreakDay) \ {2}
    /\ api.ret.longest_streak = 3
    /\ api.ret.current_streak = 3

\* the start of a window as the claims state it: the Monday of the week of
\* today, the 1st of the month of today, the alltime start
WindowStart(today, period) ==
    IF period = "weekly" THEN CHOOSE d \in (today - 6)..today : Weekday(d) = 0
    ELSE IF period = "monthly"
    THEN MaxOf({d \in (today - 30)..today : d >= -18 /\ DayOfMonth(d) = 1})
    ELSE AllTimeStart

\* the rows of participant u in the window, from its start through today
WindowRows(u, today, period) ==
    {g \in games : /\ g.user_id = u
                   /\ WindowStart(today, period) <= g.game_date
                   /\ g.game_date <= today}

WindowTotal(u, today, period) == SumScore(WindowRows(u, today, period))

\* participant a ranks strictly before participant b: higher total, or the
\* same total and a higher average
RanksBefore(a, b, today, period) ==
    LET ta == WindowTotal(a, today, period)
        tb == WindowTotal(b, today, period)
        na == Cardinality(WindowRows(a, today, period))
        nb == Cardinality(WindowRows(b, today, period))
    IN \/ ta > tb
       \/ ta = tb /\ ta * nb > tb * na

\* the participants with at least one row in the window
Ranked(today, period) == {u \in users : WindowRows(u, today, period) # {}}

\* C14: get_leaderboard returns participants with a row in the window only,
\* each once, min(limit, number of such participants) of them, ordered by
\* total score descending and then average score descending, and nobody it
\* leaves out ranks before somebody it returns.
C14_Leaderboard ==
    api.op = "get_leaderboard" =>
        LET L == api.ret
            R == Ranked(api.today, api.period)
            In == {L[i].user_id : i \in 1..Len(L)}
        IN /\ Len(L) = (IF Cardinality(R) < api.limit THEN Cardinality(R) ELSE api.limit)
           /\ In \subseteq R
           /\ Cardinality(In) = Len(L)
           /\ \A i, j \in 1..Len(L) :
                 i < j => ~RanksBefore(L[j].user_id, L[i].user_id, api.today, api.period)
           /\ \A u \in R \ In : \A i \in 1..Len(L) :
                 ~RanksBefore(u, L[i].user_id, api.today, api.period)

\* the weekly leaderboard of 2021-07-01: users 3 and 2 have the same total,
\* user 3 with the higher average comes first, and user 1, whose only row is
\* outside the window, is not in it
C14_Witness ==
    /\ api.op = "get_leaderboard" /\ api.period = "weekly" /\ api.today = 12
    /\ Len(api.ret) = 2
    /\ api.ret[1].user_id = 3 /\ api.ret[2].user_id = 2
    /\ api.ret[1].total_score = api.ret[2].total_score
    /\ api.ret[1].average_score > api.ret[2].average_score
    /\ 1 \in users
    /\ \E g \in games : g.user_id = 1

\* C15: get_user_rank returns -1 exactly when the participant has no row in
\* the window, and otherwise the participant's 1-based position in the full
\* leaderboard ordering (any position the ordering allows among ties).
C15_RankIsPosition ==
    api.op = "get_user_rank" =>
        LET u == api.user_id
            R == Ranked(api.today, api.period)
            before == {v \in R : RanksBefore(v, u, api.today, api.period)}
            after == {v \in R : RanksBefore(u, v, api.today, api.period)}
        IN /\ api.ret = NotRanked <=> u \notin R
           /\ u \in R =>
                 /\ Cardinality(before) + 1 <= api.ret
                 /\ api.ret <= Cardinality(R) - Cardinality(after)

\* C16: a stats or leaderboard query counts exactly the rows dated from the
\* window start (Monday of the week, 1st of the month, alltime start) to
\* today: the number of games and the first and last date of the stats, and
\* the number of games of every leaderboard entry, are those of these rows.
C16_WindowBounds ==
    /\ api.op = "get_user_stats" =>
          LET W == WindowRows(api.user_id, api.today, api.period)
          IN /\ api.ret.games_played = Cardinality(W)
             /\ W # {} => /\ api.ret.first_game = MinOf({g.game_date : g \in W})
                          /\ api.ret.last_game = MaxOf({g.game_date : g \in W})
    /\ api.op = "get_leaderboard" =>
          \A i \in 1..Len(api.ret) :
              api.ret[i].games_played =
                  Cardinality(WindowRows(api.ret[i].user_id, api.today, api.period))

\* the monthly leaderboard of 2021-07-01 counts user 2's row of that day (the
\* window start and today) and not the row of 2021-06-28
C16_Witness ==
    /\ api.op = "get_leaderboard" /\ api.period = "monthly" /\ api.today = 12
    /\ \E i \in 1..Len(api.ret) :
          api.ret[i].user_id = 2 /\ api.ret[i].games_played = 1
    /\ \E g \in games : g.user_id = 2 /\ g.game_date = 9
    /\ \E g \in games : g.user_id = 2 /\ g.game_date = 12

\* C17: get_user_stats returns the count, the score sum and the success count
\* of the participant's rows in the window, and the zeroed result without
\* dates when the participant has no row in the window.
C17_Stats ==
    api.op = "get_user_stats" =>
        LET W == WindowRows(api.user_id, api.today, api.period)
        IN /\ api.ret.games_played = Cardinality(W)
           /\ api.ret.total_score = SumScore(W)
           /\ api.ret.successful_games = Cardinality({g \in W : g.success})
           /\ W = {} => /\ api.ret.games_played = 0
                        /\ api.ret.total_score = 0
                        /\ api.ret.successful_games = 0
                        /\ api.ret.first_game = NoDate
                        /\ api.ret.last_game = NoDate

\* the alltime stats of user 1 with all rows stored: one game, score 6, one
\* success; the failed game before the alltime start and the rows of the
\* other users are not counted
C17_Witness ==
    /\ api.op = "get_user_stats" /\ api.user_id = 1 /\ api.period = "alltime"
    /\ Cardinality(games) = Cardinality(StatsRows)
    /\ api.ret.games_played = 1
    /\ api.ret.total_score = 6
    /\ api.ret.successful_games = 1

\* the records of a line when bare names count only on a line without a
\* structured mention
MentionsPreferred(line) ==
    IF ScoreSearch(line) = NoTok THEN <<>>
    ELSE IF line.mentions # <<>> THEN MentionRecords(line.mentions, line)
    ELSE PlainRecords(line.plains, line)

RECURSIVE MentionsPreferredResults(_)
MentionsPreferredResults(lines) ==
    IF lines = <<>> THEN <<>>
    ELSE MentionsPreferred(Head(lines)) \o MentionsPreferredResults(Tail(lines))

\* C21: on a line with a structured mention parse_player_results emits
\* records for the structured mentions only, one per mention; bare @name
\* tokens are resolved only on a line without a structured mention.
C21_MentionsPreferred ==
    api.op = "parse_player_results" =>
        api.ret = MentionsPreferredResults(api.m.lines)

\* the participant references of a line that resolve: every structured
\* mention, and every bare name that is a member's
ResolvedRefs(line) ==
    {line.mentions[i] : i \in 1..Len(line.mentions)}
    \cup {MemberNamed(line.plains[i]) :
              i \in {j \in 1..Len(line.plains) : MemberNamed(line.plains[j]) # 0}}

RefCount(line) ==
    Len(line.mentions)
    + Cardinality({j \in 1..Len(line.plains) : MemberNamed(line.plains[j]) # 0})

\* the number of records the claim gives a line
ClaimedCount(line) == IF line.toks = <<>> THEN 0 ELSE RefCount(line)

RECURSIVE ClaimedCountUpTo(_, _)
\* the number of records of the first n lines
ClaimedCountUpTo(lines, n) ==
    IF n = 0 THEN 0 ELSE ClaimedCountUpTo(lines, n - 1) + ClaimedCount(lines[n])

\* C22: every line contributes on its own: nothing without a score token,
\* nothing without a participant reference that resolves, and with a score
\* token and k references that resolve exactly k records, of these
\* participants, all made from the first score token of the line.
C22_LinesIndependent ==
    api.op = "parse_player_results" =>
        LET lines == api.m.lines
        IN /\ Len(api.ret) = ClaimedCountUpTo(lines, Len(lines))
           /\ \A n \in 1..Len(lines) :
                 \A j \in (ClaimedCountUpTo(lines, n - 1) + 1)..ClaimedCountUpTo(lines, n) :
                     /\ api.ret[j].user_id \in ResolvedRefs(lines[n])
                     /\ api.ret[j].raw_line = lines[n].toks[1]
                     /\ api.ret[j].guesses = api.ret[ClaimedCountUpTo(lines, n)].guesses
                     /\ api.ret[j].success = api.ret[ClaimedCountUpTo(lines, n)].success

\* "<@!2>" without a score gives nothing, "@Bob 3/6" gives nothing, and
\* "<@!2> <@!3> @alice @Bob X/6 2/6" gives three records of the failure marker
C22_Witness ==
    /\ api.op = "parse_player_results"
    /\ Len(api.m.lines) = 2
    /\ api.m.lines[1].toks = <<>> /\ api.m.lines[1].mentions = <<2>>
    /\ api.m.lines[2] = [mentions |-> <<2, 3>>, plains |-> <<NameAliceLower, NameBob>>,
                         toks |-> <<"X", "2">>]
    /\ Len(api.ret) = 3
    /\ \A j \in 1..3 : api.ret[j].raw_line = "X" /\ ~api.ret[j].success

\* the digits a score token can be, "0" first
DigitTokens == <<"0", "1", "2", "3", "4", "5", "6">>

\* C23: a record made from the failure marker (X or x) has attempt count 6
\* and is not a success, and the row an ingestion inserts for it has score
\* 1; a record made from the digit d has attempt count d and is a success.
C23_FailureMarkerAndDigits ==
    \A p \in Procs : \A i \in 1..Len(parsed[p].player_results) :
        LET r == parsed[p].player_results[i]
        IN /\ r.raw_line \in {"X", "x"} =>
                 /\ r.guesses = 6 /\ r.success = FALSE
                 /\ (i <= Len(outcomes[p]) /\ outcomes[p][i] = "inserted") =>
                       \A g \in RowsOfRecord(p, i) :
                           g.guesses = 6 /\ g.success = FALSE /\ g.score = 1
           /\ \A d \in 0..6 :
                 r.raw_line = DigitTokens[d + 1] => r.guesses = d /\ r.success = TRUE

\* the live handler inserted the row of "<@!1> x/6": 6 attempts, failed,
\* score 1, and the backfill parsed "<@!1> 6/6" as a success with 6 attempts
C23_Witness ==
    /\ outcomes["live"] = <<"inserted">>
    /\ parsed["live"].player_results[1].raw_line = "x"
    /\ \E g \in RowsOfRecord("live", 1) : g.guesses = 6 /\ ~g.success /\ g.score = 1
    /\ parsed["backfill"].player_results # <<>>
    /\ parsed["backfill"].player_results[1].raw_line = "6"
    /\ parsed["backfill"].player_results[1].success

\* the number of records of the call of p that ended with outcome oc
OutcomeCount(p, oc) ==
    Cardinality({i \in 1..Len(outcomes[p]) : outcomes[p][i] = oc})

\* C24: a call that went through its records without a storage error has
\* persisted or rejected as a duplicate every parsed record: the number of
\* accepted records plus the number of rejected ones is the number of
\* parsed records.
C24_EveryRecordCounted ==
    \A p \in Procs :
        (/\ Finished(p)
         /\ \A i \in 1..Len(outcomes[p]) : outcomes[p][i] \notin StorageErrors) =>
            OutcomeCount(p, "inserted") + OutcomeCount(p, "duplicate")
                = Len(parsed[p].player_results)

\* C25: every stored row has an attempt count in 1..6 and a score in 1..7,
\* the score being 1 exactly for the rows of a failure and in 2..7 for the
\* rows of a success.
C25_RowRanges ==
    \A g \in games :
        /\ g.guesses \in 1..6
        /\ g.score \in 1..7
        /\ g.score = 1 <=> g.success = FALSE
        /\ g.success => g.score \in 2..7

\* C26: every stored row names a stored participant, a call that is about
\* to insert has its participant stored, and no step removes a participant.
C26_ResultsReferenceParticipants ==
    /\ [](/\ \A g \in games : g.user_id \in users
          /\ \A p \in Procs : pc[p] \in {"select", "insert"} => Cur(p).user_id \in users)
    /\ [][users \subseteq users']_vars

\* rows of two participants are stored, written by the live handler and by
\* the backfill, while a record of an unresolvable user was skipped
C26_Witness ==
    /\ Cardinality({g.user_id : g \in games}) = 2
    /\ \E i \in 1..Len(outcomes["live"]) : outcomes["live"][i] = "inserted"
    /\ \E i \in 1..Len(outcomes["backfill"]) : outcomes["backfill"][i] = "inserted"
    /\ \E p \in Procs : \E i \in 1..Len(outcomes[p]) : outcomes[p][i] = "nouser"

\* C27: get_user_streak returns 1 <= current_streak <= longest_streak for a
\* participant with at least one stored row, and 0 for both for a participant
\* with none.
C27_StreakBounds ==
    api.op = "get_user_streak" =>
        IF \E g \in games : g.user_id = api.user_id
        THEN /\ 1 <= api.ret.current_streak
             /\ api.ret.current_streak <= api.ret.longest_streak
        ELSE api.ret.current_streak = 0 /\ api.ret.longest_streak = 0

\* the play dates {0, 1, 2, 4}: the current streak is 1, the longest 3
C27_Witness ==
    /\ api.op = "get_user_streak" /\ api.user_id = 1
    /\ PlayDates(1) = {0, 1, 2, 4}
    /\ api.ret.current_streak = 1
    /\ api.ret.longest_streak = 3

====
